---- MODULE Spec2Model ----
(***************************************************************************)
(* Model of src/src/lib.rs: the typestate Order<S> of rust-typestate.      *)
(*                                                                         *)
(* An order value is a record [id, user, products, state].  Every value    *)
(* ever built occupies one cell of `orders`; a cell is Unused, holds a     *)
(* value its owner can use, or is Moved once a method took the value by    *)
(* `self`.  Besides the four methods, the owner of a value can reach the   *)
(* public fields of Order and InDelivery directly (field assignment and    *)
(* struct-literal construction): those are actions of their own.  The      *)
(* caller is the one of the module's example and of tests::order_flow: it  *)
(* holds its order in one binding, `order`, rebound by every call.         *)
(*                                                                         *)
(* Strings are tuples of byte values.                                      *)
(***************************************************************************)
EXTENDS Integers, Sequences, FiniteSets

VARIABLES
    orders,   \* cell -> Unused, Moved, or the order value it holds
    hist,     \* cell -> how its value came to be (observation only)
    last      \* the most recent call and its arguments (observation only)

\* ------------------------------------------------------------ bounds
\* Number of order values (cells) a run may build.
MaxValues == 5

\* ------------------------------------------------------------ strings
\* String::new()
StringNew == << >>

\* <&str>::to_string(): a new String holding a copy of each byte.
to_string(s) == [i \in 1..Len(s) |-> s[i]]

\* "u1", "u2"
UserIdInputs == { <<117, 49>>, <<117, 50>> }
\* "" and "t"
TrackingIdInputs == { << >>, <<116>> }
\* "" and "o"
OrderIdInputs == { << >>, <<111>> }

\* ------------------------------------------------------------ Product, User
\* Product::new(id, name, price)
ProductNew(id, name, price) ==
    [id |-> to_string(id), name |-> to_string(name), price |-> price]

\* User::new(id)
UserNew(id) == [id |-> to_string(id)]

\* Product::new("p1", "A", 10.0), Product::new("p2", "B", 10.0); the price is
\* kept as the number of tenths.
ProductInputs == { ProductNew(<<112, 49>>, <<65>>, 100), ProductNew(<<112, 50>>, <<66>>, 100) }

UserInputs == { UserNew(i) : i \in UserIdInputs }

\* vec![], vec![p1, p2], vec![p2, p1]
ProductSeqInputs ==
    { << >> } \cup { pq \in ProductInputs \X ProductInputs : pq[1] # pq[2] }

\* ------------------------------------------------------------ states
\* pub struct Pending;
Pending == [name |-> "Pending"]
\* pub struct Packaging;
Packaging == [name |-> "Packaging"]
\* pub struct InDelivery { pub tracking_id: String }
InDelivery(tracking_id) == [name |-> "InDelivery", tracking_id |-> tracking_id]
\* pub struct Completed;
Completed == [name |-> "Completed"]

\* The types implementing OrderState in the crate.
OrderStates == {Pending, Packaging, Completed} \cup { InDelivery(t) : t \in TrackingIdInputs }

StateNames == <<"Pending", "Packaging", "InDelivery", "Completed">>

\* pub trait OrderState {}: the trait is public and not sealed, so a caller's
\* crate can write `struct Lost; impl OrderState for Lost {}`.
ForeignStates == { [name |-> "Lost"] }

\* ------------------------------------------------------------ Order<S>
\* Order::<Pending>::new(user, products)
MutNewLosesProducts(user, products) ==
    [id |-> StringNew, user |-> user, products |-> << >>, state |-> Pending]

MutNewIdFromUser(user, products) ==
    [id |-> user.id, user |-> user, products |-> products, state |-> Pending]

OrderNew(user, products) ==
    [id |-> StringNew, user |-> user, products |-> products, state |-> Pending]

\* Order::<Pending>::submit(self)
MutSubmitResetsId(self) ==
    [id |-> StringNew, user |-> self.user, products |-> self.products, state |-> Packaging]

MutSubmitSkipsPackaging(self) ==
    [id |-> self.id, user |-> self.user, products |-> self.products,
     state |-> InDelivery(StringNew)]

MutSubmitIdFromCounter(self) ==
    [id |-> IF Cardinality({ v \in 1..MaxValues : orders[v] = [cell |-> "Unused"] }) % 2 = 0
            THEN <<111>> ELSE self.id,
     user |-> self.user, products |-> self.products, state |-> Packaging]

submit(self) ==
    [id |-> self.id, user |-> self.user, products |-> self.products, state |-> Packaging]

\* Order::<Packaging>::ship(self, tracking_id)
MutShipDropsTracking(self, tracking_id) ==
    [id |-> self.id, user |-> self.user, products |-> self.products,
     state |-> InDelivery(StringNew)]

ship(self, tracking_id) ==
    [id |-> self.id, user |-> self.user, products |-> self.products,
     state |-> InDelivery(to_string(tracking_id))]

\* Order::<InDelivery>::complete(self)
MutCompleteKeepsState(self) ==
    [id |-> self.id, user |-> self.user, products |-> self.products, state |-> self.state]

MutCompleteLeaksTracking(self) ==
    [id |-> IF self.id = StringNew THEN self.state.tracking_id ELSE self.id,
     user |-> self.user, products |-> self.products, state |-> Completed]

complete(self) ==
    [id |-> self.id, user |-> self.user, products |-> self.products, state |-> Completed]

\* The impl block a method lives in: the state its receiver must have.
MutReceiverAny(method) == {"Pending", "Packaging", "InDelivery"}

MutShipInWrongImpl(method) ==
    CASE method = "submit" -> {"Pending"}
      [] method = "ship" -> {"Pending"}
      [] method = "complete" -> {"InDelivery"}

MutCompleteAlsoOnPackaging(method) ==
    CASE method = "submit" -> {"Pending"}
      [] method = "ship" -> {"Packaging"}
      [] method = "complete" -> {"Packaging", "InDelivery"}

Receiver(method) ==
    CASE method = "submit" -> {"Pending"}
      [] method = "ship" -> {"Packaging"}
      [] method = "complete" -> {"InDelivery"}

Methods == {"submit", "ship", "complete"}

\* The value a method call returns.
Apply(method, self, tracking_id) ==
    CASE method = "submit" -> submit(self)
      [] method = "ship" -> ship(self, tracking_id)
      [] method = "complete" -> complete(self)

\* ------------------------------------------------------------ cells
Unused == [cell |-> "Unused"]
Moved == [cell |-> "Moved"]

Values == 1..MaxValues

vars == <<orders, hist, last>>

IsLive(v) == orders[v] # Unused /\ orders[v] # Moved

Live == { v \in Values : IsLive(v) }

\* The cell the next value built goes to.
Fresh == CHOOSE v \in Values : orders[v] = Unused /\ \A w \in Values : orders[w] = Unused => v <= w

HasFresh == \E v \in Values : orders[v] = Unused

\* `order` is bound to no value: none was built yet, or the last one was dropped.
Unbound == Live = {}

NoOrder == [cell |-> "None"]

NoHist ==
    [by |-> "none", from |-> 0, root |-> "none", path |-> << >>,
     user |-> UserNew(StringNew), products |-> << >>, shipped |-> StringNew, taken |-> 0]

NoCall ==
    [call |-> "none", ok |-> TRUE, src |-> 0, dst |-> 0, self |-> NoOrder,
     user |-> UserNew(StringNew), products |-> << >>, tracking_id |-> StringNew]

\* `self` taken by value: the receiver is moved into the call.
MutSelfByReference(v) == orders

MutMoveEveryOrder(v) ==
    [w \in Values |-> IF orders[w] = Unused THEN Unused ELSE Moved]

MoveSelf(v) == [orders EXCEPT ![v] = Moved]

Init ==
    /\ orders = [v \in Values |-> Unused]
    /\ hist = [v \in Values |-> NoHist]
    /\ last = NoCall

\* let order = Order::new(user, products);
New(user, products) ==
    /\ HasFresh
    /\ Unbound
    /\ LET v == Fresh
           o == OrderNew(user, products)
       IN /\ orders' = [orders EXCEPT ![v] = o]
          /\ hist' = [hist EXCEPT ![v] =
                 [NoHist EXCEPT !.by = "new", !.root = "new", !.path = <<o.state.name>>,
                                !.user = user, !.products = products]]
          /\ last' = [NoCall EXCEPT !.call = "new", !.dst = v,
                                     !.user = user, !.products = products]

\* let order = order.submit(); / order.ship(t) / order.complete(), on a value
\* whose type has the method.
Call(method, v, tracking_id) ==
    /\ IsLive(v)
    /\ orders[v].state.name \in Receiver(method)
    /\ HasFresh
    /\ LET w == Fresh
           o == Apply(method, orders[v], tracking_id)
       IN /\ orders' = [MoveSelf(v) EXCEPT ![w] = o]
          /\ hist' = [hist EXCEPT
                 ![v] = [NoHist EXCEPT !.taken = hist[v].taken + 1],
                 ![w] = [hist[v] EXCEPT !.by = method, !.from = v, !.taken = 0,
                             !.path = Append(@, o.state.name),
                             !.shipped = IF method = "ship" THEN tracking_id ELSE @]]
          /\ last' = [NoCall EXCEPT !.call = method, !.src = v, !.dst = w,
                                     !.self = orders[v], !.tracking_id = tracking_id]

Submit(v) == Call("submit", v, StringNew)

Ship(v, tracking_id) == Call("ship", v, tracking_id)

Complete(v) == Call("complete", v, StringNew)

\* A call of a method the value's type does not have: the program is rejected
\* by the compiler (the compile_fail example) and nothing runs.
Rejected(method, v) ==
    /\ IsLive(v)
    /\ orders[v].state.name \notin Receiver(method)
    /\ last' = [NoCall EXCEPT !.call = method, !.ok = FALSE, !.src = v]
    /\ UNCHANGED <<orders, hist>>

\* Order { id, user, products, state }: every field of Order and of the state
\* types is pub, so a value in any state can be written as a struct literal,
\* with any type implementing OrderState as its state.
Literal(id, user, products, state) ==
    /\ HasFresh
    /\ Unbound
    /\ LET v == Fresh
           o == [id |-> id, user |-> user, products |-> products, state |-> state]
       IN /\ orders' = [orders EXCEPT ![v] = o]
          /\ hist' = [hist EXCEPT ![v] =
                 [NoHist EXCEPT !.by = "literal", !.root = "literal",
                                !.path = <<state.name>>,
                                !.user = user, !.products = products]]
          /\ last' = [NoCall EXCEPT !.call = "literal", !.dst = v,
                                     !.user = user, !.products = products]

\* The binding goes out of scope: the value is dropped.
Drop(v) ==
    /\ IsLive(v)
    /\ orders' = [orders EXCEPT ![v] = Moved]
    /\ hist' = [hist EXCEPT ![v] = [NoHist EXCEPT !.taken = hist[v].taken]]
    /\ last' = [NoCall EXCEPT !.call = "drop", !.src = v]

\* order.id = ...; the owner of a value assigns a pub field.
SetId(v, id) ==
    /\ IsLive(v)
    /\ orders' = [orders EXCEPT ![v].id = id]
    /\ last' = [NoCall EXCEPT !.call = "set_id", !.src = v, !.dst = v]
    /\ UNCHANGED hist

\* order.user = ...;
SetUser(v, user) ==
    /\ IsLive(v)
    /\ orders' = [orders EXCEPT ![v].user = user]
    /\ last' = [NoCall EXCEPT !.call = "set_user", !.src = v, !.dst = v]
    /\ UNCHANGED hist

\* order.products = ...; (or push, clear, ... on the pub Vec)
SetProducts(v, products) ==
    /\ IsLive(v)
    /\ orders' = [orders EXCEPT ![v].products = products]
    /\ last' = [NoCall EXCEPT !.call = "set_products", !.src = v, !.dst = v]
    /\ UNCHANGED hist

\* order.state.tracking_id = ...; only Order<InDelivery> has the field.
SetTrackingId(v, tracking_id) ==
    /\ IsLive(v)
    /\ orders[v].state.name = "InDelivery"
    /\ orders' = [orders EXCEPT ![v].state = InDelivery(tracking_id)]
    /\ last' = [NoCall EXCEPT !.call = "set_tracking_id", !.src = v, !.dst = v]
    /\ UNCHANGED hist

Next ==
    \/ \E u \in UserInputs, p \in ProductSeqInputs : New(u, p)
    \/ \E v \in Values : Submit(v)
    \/ \E v \in Values, t \in TrackingIdInputs : Ship(v, t)
    \/ \E v \in Values : Complete(v)
    \/ \E v \in Values, m \in Methods : Rejected(m, v)
    \/ \E i \in OrderIdInputs, u \in UserInputs, p \in ProductSeqInputs,
          s \in OrderStates \cup ForeignStates :
           Literal(i, u, p, s)
    \/ \E v \in Values : Drop(v)
    \/ \E v \in Values, i \in OrderIdInputs : SetId(v, i)
    \/ \E v \in Values, u \in UserInputs : SetUser(v, u)
    \/ \E v \in Values, p \in ProductSeqInputs : SetProducts(v, p)
    \/ \E v \in Values, t \in TrackingIdInputs : SetTrackingId(v, t)

Spec == Init /\ [][Next]_vars

\* Several orders at once: two callers, each with its own binding, calling
\* Order::new, submit, ship and complete in any interleaving.
Bindings == {"order", "other"}

NewOrder(user, products) ==
    /\ HasFresh
    /\ Cardinality(Live) < Cardinality(Bindings)
    /\ LET v == Fresh
           o == OrderNew(user, products)
       IN /\ orders' = [orders EXCEPT ![v] = o]
          /\ hist' = [hist EXCEPT ![v] =
                 [NoHist EXCEPT !.by = "new", !.root = "new", !.path = <<o.state.name>>,
                                !.user = user, !.products = products]]
          /\ last' = [NoCall EXCEPT !.call = "new", !.dst = v,
                                     !.user = user, !.products = products]

NextOrders ==
    \/ \E u \in UserInputs, p \in ProductSeqInputs : NewOrder(u, p)
    \/ \E v \in Values : Submit(v)
    \/ \E v \in Values, t \in TrackingIdInputs : Ship(v, t)
    \/ \E v \in Values : Complete(v)

SpecOrders == Init /\ [][NextOrders]_vars

\* The life of one order whose owner keeps it: Order::new, then the methods
\* (and the owner's assignments to the pub fields) until nothing is left to
\* call.  A method that can be called is eventually called.
NextLife ==
    \/ \E u \in UserInputs, p \in ProductSeqInputs : New(u, p)
    \/ \E v \in Values : Submit(v)
    \/ \E v \in Values, t \in TrackingIdInputs : Ship(v, t)
    \/ \E v \in Values : Complete(v)
    \/ \E v \in Values, m \in Methods : Rejected(m, v)
    \/ \E v \in Values, i \in OrderIdInputs : SetId(v, i)
    \/ \E v \in Values, u \in UserInputs : SetUser(v, u)
    \/ \E v \in Values, p \in ProductSeqInputs : SetProducts(v, p)
    \/ \E v \in Values, t \in TrackingIdInputs : SetTrackingId(v, t)

SpecLife ==
    /\ Init
    /\ [][NextLife]_vars
    /\ WF_vars(\E v \in Values : Submit(v))
    /\ WF_vars(\E v \in Values, t \in TrackingIdInputs : Ship(v, t))
    /\ WF_vars(\E v \in Values : Complete(v))

\* ------------------------------------------------------------ claims
IsPrefix(p, q) == Len(p) <= Len(q) /\ \A i \in 1..Len(p) : p[i] = q[i]

\* The values built by Order::new or by a method on such a value.
FromNew == { v \in Live : hist[v].root = "new" }

\* C1: an order created by Order::new and driven by submit, ship and complete
\* goes through a prefix of Pending, Packaging, InDelivery, Completed: the
\* states it has had, in order, are the first states of that sequence, and the
\* state it has now is the last of them.
C1_StatePathLinear ==
    \A v \in FromNew :
        /\ Len(hist[v].path) >= 1
        /\ IsPrefix(hist[v].path, StateNames)
        /\ orders[v].state.name = hist[v].path[Len(hist[v].path)]

\* An order created by Order::new has gone through all four states.
C1_Witness ==
    \E v \in FromNew : hist[v].path = StateNames /\ orders[v].state = Completed

\* C2: every order value in Packaging was produced by submit on a Pending
\* order, every value in InDelivery by ship on a Packaging order, every value
\* in Completed by complete on an InDelivery order, and in no other way.
C2_OnlyViaPredecessor ==
    \A v \in Live :
        LET n == Len(hist[v].path)
            Via(method, before) ==
                /\ hist[v].by = method
                /\ n >= 2
                /\ hist[v].path[n - 1] = before
        IN /\ orders[v].state.name = "Packaging" => Via("submit", "Pending")
           /\ orders[v].state.name = "InDelivery" => Via("ship", "Packaging")
           /\ orders[v].state.name = "Completed" => Via("complete", "InDelivery")

\* C3: ship or complete on a Pending order, and complete on a Packaging
\* order, are never carried out: the call is rejected and no order value
\* changes.
C3_InvalidRejected ==
    [][ LET before == IF last'.src \in Values /\ IsLive(last'.src)
                      THEN orders[last'.src].state.name ELSE "none"
            invalid == \/ last'.call \in {"ship", "complete"} /\ before = "Pending"
                       \/ last'.call = "complete" /\ before = "Packaging"
        IN invalid => ~last'.ok /\ orders' = orders ]_vars

\* complete was called on a Pending order and rejected; the order is still
\* Pending.
C3_Witness ==
    /\ last.call = "complete"
    /\ ~last.ok
    /\ IsLive(last.src)
    /\ orders[last.src].state = Pending

\* C4: a method consumes its receiver: a value a transition was taken from is
\* no longer usable, no value has more than one transition taken from it, and
\* no two values are successors of the same value.
C4_SelfConsumed ==
    /\ \A v \in Values : hist[v].taken <= 1
    /\ \A v \in Values : hist[v].taken = 1 => orders[v] = Moved
    /\ \A v, w \in Live : hist[v].from # 0 /\ hist[v].from = hist[w].from => v = w

\* A transition was taken from a value: the value is moved and its successor
\* is usable.
C4_Witness ==
    \E v \in Values, w \in Live :
        /\ hist[w].from = v
        /\ hist[v].taken = 1
        /\ orders[v] = Moved

\* C5: Order::new(u, p) yields a Pending order with user u and products p,
\* the same elements in the same order, for every u and p.
C5_NewResult ==
    last.call = "new" =>
        /\ orders[last.dst].state = Pending
        /\ orders[last.dst].user = last.user
        /\ orders[last.dst].products = last.products

\* Order::new was called with two different products.
C5_Witness ==
    /\ last.call = "new"
    /\ Len(last.products) = 2
    /\ last.products[1] # last.products[2]
    /\ orders[last.dst].state = Pending

\* C6: submit on a Pending order yields a Packaging order with the id, user
\* and products of its receiver.
C6_SubmitResult ==
    last.call = "submit" /\ last.ok =>
        /\ last.self.state = Pending
        /\ orders[last.dst].state = Packaging
        /\ orders[last.dst].id = last.self.id
        /\ orders[last.dst].user = last.self.user
        /\ orders[last.dst].products = last.self.products

\* submit was called on a Pending order with an id and products.
C6_Witness ==
    /\ last.call = "submit"
    /\ last.ok
    /\ last.self.id # StringNew
    /\ last.self.products # << >>
    /\ orders[last.dst].state = Packaging

\* C7: ship(t) on a Packaging order yields an InDelivery order whose
\* tracking_id is t, for every t, with the id, user and products of its
\* receiver.
C7_ShipResult ==
    last.call = "ship" /\ last.ok =>
        /\ last.self.state = Packaging
        /\ orders[last.dst].state.name = "InDelivery"
        /\ orders[last.dst].state.tracking_id = last.tracking_id
        /\ orders[last.dst].id = last.self.id
        /\ orders[last.dst].user = last.self.user
        /\ orders[last.dst].products = last.self.products

\* ship was called with the empty string on a Packaging order with an id and
\* products.
C7_Witness ==
    /\ last.call = "ship"
    /\ last.ok
    /\ last.tracking_id = StringNew
    /\ last.self.id # StringNew
    /\ last.self.products # << >>
    /\ orders[last.dst].state.name = "InDelivery"

\* C8: complete on an InDelivery order yields a Completed order with the id,
\* user and products of its receiver and with no tracking_id.
C8_CompleteResult ==
    last.call = "complete" /\ last.ok =>
        /\ last.self.state.name = "InDelivery"
        /\ orders[last.dst].state = Completed
        /\ "tracking_id" \notin DOMAIN orders[last.dst].state
        /\ orders[last.dst].id = last.self.id
        /\ orders[last.dst].user = last.self.user
        /\ orders[last.dst].products = last.self.products

\* complete was called on an InDelivery order with a tracking id, an id and
\* products.
C8_Witness ==
    /\ last.call = "complete"
    /\ last.ok
    /\ last.self.state.tracking_id # StringNew
    /\ last.self.id # StringNew
    /\ last.self.products # << >>
    /\ orders[last.dst].state = Completed

\* C9: at every point of the life of an order created by Order::new, its user
\* and products are the ones passed to Order::new.
C9_UserProductsFixed ==
    \A v \in FromNew :
        /\ orders[v].user = hist[v].user
        /\ orders[v].products = hist[v].products

\* C10: an order has a tracking_id exactly when it is InDelivery; for an
\* order created by Order::new the tracking_id is assigned by ship, and while
\* the order is InDelivery it is the value given to ship.
C10_TrackingIdFixed ==
    /\ \A v \in Live :
           "tracking_id" \in DOMAIN orders[v].state <=> orders[v].state.name = "InDelivery"
    /\ \A v \in FromNew :
           orders[v].state.name = "InDelivery" =>
               /\ hist[v].by = "ship"
               /\ orders[v].state.tracking_id = hist[v].shipped

\* C11: once an order created by Order::new is Completed no method is
\* carried out on it, and as long as its owner keeps it, it stays Completed
\* with its id, user and products unchanged.
C11_CompletedTerminal ==
    [][ \A v \in FromNew :
            orders[v].state = Completed =>
                /\ ~(last'.call \in Methods /\ last'.ok /\ last'.src = v)
                /\ orders'[v] \in {orders[v], Moved} ]_vars

\* C12: no operation has an error outcome: Order::new can be called with
\* every user and product sequence and yields a Pending order; submit, ship
\* and complete can be called on every order in their state, with every
\* argument, and yield the successor order; a call is only ever refused when
\* the receiver is not in the method's state.
C12_NoErrorOutcome ==
    /\ Unbound /\ HasFresh =>
           \A u \in UserInputs, p \in ProductSeqInputs : ENABLED New(u, p)
    /\ \A v \in Live :
           HasFresh =>
               /\ orders[v].state.name = "Pending" => ENABLED Submit(v)
               /\ orders[v].state.name = "Packaging" =>
                      \A t \in TrackingIdInputs : ENABLED Ship(v, t)
               /\ orders[v].state.name = "InDelivery" => ENABLED Complete(v)
    /\ last.call = "new" =>
           last.ok /\ IsLive(last.dst) /\ orders[last.dst].state.name = "Pending"
    /\ last.call \in Methods /\ last.ok =>
           /\ IsLive(last.dst)
           /\ last.call = "submit" => orders[last.dst].state.name = "Packaging"
           /\ last.call = "ship" => orders[last.dst].state.name = "InDelivery"
           /\ last.call = "complete" => orders[last.dst].state.name = "Completed"
    /\ last.call \in Methods /\ ~last.ok =>
           /\ last.call = "submit" => orders[last.src].state.name # "Pending"
           /\ last.call = "ship" => orders[last.src].state.name # "Packaging"
           /\ last.call = "complete" => orders[last.src].state.name # "InDelivery"

\* ship succeeded with the empty string on an order without products.
C12_Witness ==
    /\ last.call = "ship"
    /\ last.ok
    /\ last.tracking_id = StringNew
    /\ last.self.products = << >>
    /\ IsLive(last.dst)
    /\ orders[last.dst].state.name = "InDelivery"

\* C13: in every reachable state of every order created by Order::new, the
\* id is the empty string.
C13_IdAlwaysEmpty ==
    \A v \in FromNew : orders[v].id = StringNew

\* C13, amended: Order::new yields the empty id, submit, ship and complete
\* yield the id of their receiver, and the id of a value only changes when
\* its owner assigns the pub field.
C13_IdSetOnlyByOwner ==
    [][ /\ last'.call = "new" => orders'[last'.dst].id = StringNew
        /\ last'.call \in Methods /\ last'.ok =>
               orders'[last'.dst].id = orders[last'.src].id
        /\ \A v \in Values :
               IsLive(v) /\ orders'[v] # Moved /\ orders'[v].id # orders[v].id =>
                   last'.call = "set_id" /\ last'.src = v ]_vars

\* An order created by Order::new went through all its states without an
\* assignment to id: its id is still the empty string.
C13_Witness ==
    /\ last.call = "complete"
    /\ last.ok
    /\ last.dst \in FromNew
    /\ orders[last.dst].state = Completed
    /\ orders[last.dst].id = StringNew
    /\ orders[last.dst].products # << >>

\* C14: which method can be called on an order depends on its state alone:
\* submit exactly on Pending, ship exactly on Packaging, complete exactly on
\* InDelivery, none on Completed, whatever the id, user, products and
\* tracking id; and each leads to the one next state.
C14_EnabledByState ==
    /\ \A v \in Live :
           HasFresh =>
               /\ ENABLED Submit(v) <=> orders[v].state.name = "Pending"
               /\ \A t \in TrackingIdInputs :
                      ENABLED Ship(v, t) <=> orders[v].state.name = "Packaging"
               /\ ENABLED Complete(v) <=> orders[v].state.name = "InDelivery"
    /\ last.call \in Methods /\ last.ok =>
           <<last.call, last.self.state.name, orders[last.dst].state.name>> \in
               { <<"submit", "Pending", "Packaging">>,
                 <<"ship", "Packaging", "InDelivery">>,
                 <<"complete", "InDelivery", "Completed">> }

\* A Packaging order with an id and products: ship can be called, submit and
\* complete cannot.
C14_Witness ==
    \E v \in Live :
        /\ orders[v].state = Packaging
        /\ orders[v].id # StringNew
        /\ orders[v].products # << >>
        /\ ENABLED Ship(v, <<116>>)
        /\ ~ENABLED Submit(v)
        /\ ~ENABLED Complete(v)

\* C15: every order value has exactly one of the four states Pending,
\* Packaging, InDelivery, Completed.
C15_OneOfFourStates ==
    \A v \in Live :
        Cardinality({ i \in 1..Len(StateNames) : orders[v].state.name = StateNames[i] }) = 1

\* The order value that Order::new and the methods yield when the calls
\* recorded for a value are made on their own, one after the other.
Alone(h) ==
    LET o0 == OrderNew(h.user, h.products)
        o1 == submit(o0)
        o2 == ship(o1, h.shipped)
        o3 == complete(o2)
    IN <<o0, o1, o2, o3>>[Len(h.path)]

\* C16: with several orders whose calls are interleaved, Order::new, submit,
\* ship and complete leave every order value other than their receiver and
\* their result unchanged, and every order value is the one its own calls
\* yield when made alone.
C16_Independent ==
    /\ [](\A v \in FromNew : orders[v] = Alone(hist[v]))
    /\ [][ \A w \in Values :
               w # last'.src /\ w # last'.dst => orders'[w] = orders[w] ]_vars

\* Two orders of different users and products are in use; the second was
\* submitted between the submit and the ship of the first.
C16_Witness ==
    \E v, w \in FromNew :
        /\ hist[v].user # hist[w].user
        /\ hist[v].products # hist[w].products
        /\ hist[v].by = "ship"
        /\ hist[w].by = "submit"
        /\ hist[v].from < w
        /\ w < v
        /\ orders[w] = Alone(hist[w])

C18_LifeBoundedAndEnds ==
    /\ [](\A v \in FromNew :
             LET n == Len(hist[v].path)
             IN /\ n \in 1..4
                /\ hist[v].by = <<"new", "submit", "ship", "complete">>[n]
                /\ orders[v].state = Completed <=> n = 4)
    /\ (FromNew # {}) ~> (\E v \in FromNew : orders[v].state = Completed)

\* complete was the third transition of an order created by Order::new.
C18_Witness ==
    \E v \in FromNew :
        /\ hist[v].by = "complete"
        /\ Len(hist[v].path) = 4
        /\ hist[v].from # 0
        /\ orders[hist[v].from] = Moved
        /\ last.dst = v

\* C19: complete yields the same Completed order for every tracking id of its
\* receiver: the result of a call of complete is the result of complete on
\* the receiver with any other tracking id.
C19_TrackingIdNotLeaked ==
    last.call = "complete" /\ last.ok =>
        \A t \in TrackingIdInputs :
            orders[last.dst] = complete([last.self EXCEPT !.state = InDelivery(t)])

\* complete was called on an order with a tracking id and no id; the result
\* is the one for the empty tracking id.
C19_Witness ==
    /\ last.call = "complete"
    /\ last.ok
    /\ last.self.state = InDelivery(<<116>>)
    /\ last.self.id = StringNew
    /\ orders[last.dst] = complete([last.self EXCEPT !.state = InDelivery(StringNew)])
====
